---- MODULE Spec2Model ----
(***************************************************************************)
(* Model of the status synchronisation engine of bot.py: the target        *)
(* registry (servers.json), the session state (status_state.json and its   *)
(* in-memory mirror `state`), the reconciliation upsert_status_message,    *)
(* the interaction handlers that trigger it, the response cache and the    *)
(* retrying fetcher.                                                       *)
(*                                                                         *)
(* Tasks are coroutines on one event loop: an action is the code a task    *)
(* runs between two suspension points (awaits that really yield: network   *)
(* calls and sleeps).  save_servers / save_state take FILE_WRITE_LOCK,     *)
(* which is never held across a suspension, so the acquire never yields    *)
(* and a save is part of the action that calls it.                         *)
(***************************************************************************)
EXTENDS Naturals, Integers, Sequences, FiniteSets, TLC

\* Python's None where a string (an id, a link) is expected: no string of the
\* model equals it.
None == <<"None">>

\* None where a message handle or a list position is expected (both are >= 1)
NoMessage == 0
NoIndex == 0

\* no reconcile has completed yet in the current group of overlapping reconciles
NoReconcile == [active |-> None, msg |-> NoMessage, clean |-> TRUE]

(***************************************************************************)
(* Strings are sequences of characters.  "P" stands for the literal text   *)
(* "/servers/dayz/" and "Q" for "/servers/rust/" (another game segment);   *)
(* every other character is itself.                                        *)
(***************************************************************************)
Digits == {"1", "2", "3"}
Space == " "

\* ---------------------------------------------------------------------
\* Bounds of the model
\* ---------------------------------------------------------------------
\* user interactions handled in one run
MaxOps == 2
\* 60 s cycles of the poller in one run
MaxCycles == 1
\* status messages ever created in the channel
MaxMsgs == 2
\* status messages deleted by channel moderators
MaxDeletes == 1
\* longest registry given to _resolve_active_server_id on its own
MaxRegistry == 3
\* snapshots built in one run of the cache model
MaxSnapshots == 2
\* the clock of the cache model advances MaxTicks times by TickSeconds
MaxTicks == 2
TickSeconds == 5
\* longest link typed into /addserver or /removeserver in the link model
MaxLen == 3

\* ---------------------------------------------------------------------
\* Sequence helpers
\* ---------------------------------------------------------------------
Contains(s, x) == \E i \in 1..Len(s) : s[i] = x

NoDuplicates(s) == \A i, j \in 1..Len(s) : s[i] = s[j] => i = j

Without(s, x) == SelectSeq(s, LAMBDA e : e # x)

\* position of the first element equal to x (the enumerate loop with break)
IndexOf(s, x) ==
    IF Contains(s, x) THEN CHOOSE i \in 1..Len(s) : s[i] = x /\ \A j \in 1..(i - 1) : s[j] # x
    ELSE NoIndex

IsDigits(s) == Len(s) > 0 /\ \A i \in 1..Len(s) : s[i] \in Digits

\* str.strip(): drop leading and trailing whitespace
RECURSIVE LStrip(_)
LStrip(s) == IF s # <<>> /\ Head(s) = Space THEN LStrip(Tail(s)) ELSE s

RECURSIVE RStrip(_)
RStrip(s) == IF s # <<>> /\ s[Len(s)] = Space THEN RStrip(SubSeq(s, 1, Len(s) - 1)) ELSE s

Strip(s) == RStrip(LStrip(s))

\* the greedy run of digits that starts at position i (\d+ of the pattern)
RECURSIVE DigitRun(_, _)
DigitRun(s, i) ==
    IF i <= Len(s) /\ s[i] \in Digits THEN <<s[i]>> \o DigitRun(s, i + 1) ELSE <<>>

\* extract_bm_id: the id after the leftmost "/servers/dayz/" that is followed
\* by a digit, else the whole stripped text when it is all digits, else None
extract_bm_id(url) ==
    IF url = <<>> THEN None
    ELSE LET u == Strip(url)
             hits == {i \in 1..Len(u) : u[i] = "P" /\ i < Len(u) /\ u[i + 1] \in Digits}
         IN IF hits # {}
            THEN DigitRun(u, (CHOOSE i \in hits : \A j \in hits : i <= j) + 1)
            ELSE IF IsDigits(u) THEN u
            ELSE None

\* ---------------------------------------------------------------------
\* The tracked ids and the links users type in the reconciliation model
\* ---------------------------------------------------------------------
A == <<"1">>
B == <<"2">>
C == <<"3">>
Ids == {A, B, C}

\* links typed into /addserver, the add modal and /removeserver
Urls == {A, B, C, <<"P", "2">>, <<"x">>}

\* registry contents found on disk at start-up
InitRegistries == {<<>>, <<A, B, C>>}

\* ---------------------------------------------------------------------
\* State
\* ---------------------------------------------------------------------
VARIABLES
    serversFile,   \* servers.json: db["servers"] as the sequence of target ids
    stateFile,     \* status_state.json
    state,         \* the module-level dict `state`
    channel,       \* live status messages of the channel: id -> embed and view
    nextMsg,       \* number of messages created so far (ids are 1, 2, ...)
    deletes,       \* messages deleted by moderators so far
    tasks,         \* every coroutine: position and locals
    ops,           \* interactions handled so far
    cycles,        \* poller cycles started so far
    now,           \* time.time(), in seconds
    STATUS_CACHE,  \* server id -> (fetched_at, snapshot)
    calls,         \* every caller of fetch_status: position, locals and history
    nser,          \* snapshots built so far (a snapshot's serial tells objects apart)
    fs,            \* the files of the working directory, by path
    lock,          \* the task that holds FILE_WRITE_LOCK, or NoTask
    running,       \* the task the event loop is executing, NoTask between
                   \* tasks, Crashed once the process was killed
    lastDone       \* history: the reconcile that completed last since a reconcile
                   \* last began with no other one running; clean is FALSE once a
                   \* select / refresh callback or an aborted reconcile has written
                   \* the selection or the message since then

Users == {"u1", "u2"}
Procs == {"main"} \cup Users

\* a task that holds no view
NoView == [shown |-> None, opts |-> <<>>, values |-> None]

\* a coroutine that is not running
Idle ==
    [pc |-> "idle", kind |-> "-", server_id |-> None, db |-> <<>>, pref |-> None,
     msg_id |-> NoMessage, active_id |-> None, view |-> NoView, newmsg |-> NoMessage,
     m |-> NoMessage,
     outcome |-> "-", h_before |-> <<>>, h_active |-> FALSE,
     h_state |-> [status_message_id |-> NoMessage, selected_server_id |-> None]]

\* load_servers()["servers"]
load_servers == serversFile

\* state.get("selected_server_id") as a string or None
_current_selected_server_id == state.selected_server_id

\* the value "none" of the placeholder option of an empty select menu
NoneOption == <<"none">>

\* ---------------------------------------------------------------------
\* Fetcher and response cache
\* ---------------------------------------------------------------------
\* CACHE_TTL, in seconds
CACHE_TTL == 10

\* the default of the `retries` parameter of aiohttp_request
retries == 3

cacheVars == <<now, STATUS_CACHE, calls, nser>>

Callers == {"c1", "c2"}

\* the ids whose status is fetched
CacheIds == {A}

\* what one GET can end with: a response below 400 carrying a body, a 429
\* with or without a Retry-After header, another status >= 400, or a
\* timeout / connection error / undecodable body
Responses == {"ok", "429-retry-after", "429", "http-error", "network-error"}

\* bodies of a response below 400, by shape: the attributes of an online or
\* offline server, an object without data.attributes (such as {}), attributes
\* with players but no status, and JSON that is no object (such as [])
Payloads == {"online", "offline", "no-attributes", "partial", "not-an-object"}

\* no snapshot (serial 0)
NoSnapshot ==
    [ser |-> 0, server_id |-> None, online |-> FALSE, error |-> "", players |-> "-"]

\* STATUS_CACHE.get(server_id) is None
NoEntry == [at |-> 0, snap |-> NoSnapshot]

\* a caller that has not called yet
NoCall ==
    [pc |-> "idle", server_id |-> None, attempt |-> 0, ra |-> 0, payload |-> "-",
     request |-> "-", cancelled |-> "-", startAt |-> 0, seen |-> NoEntry, fetched |-> FALSE, failed |-> FALSE,
     stored |-> FALSE, result |-> NoSnapshot]

CacheInit ==
    /\ now = 0
    /\ STATUS_CACHE = [id \in CacheIds |-> NoEntry]
    /\ calls = [c \in Callers |-> NoCall]
    /\ nser = 0

\* (variant: the comparison with the TTL is inverted)
cache_fresh_inverted(cached, t) == cached # NoEntry /\ t - cached.at >= CACHE_TTL

\* line 279: cached and now - cached[0] < CACHE_TTL
cache_fresh(cached, t) == cached # NoEntry /\ t - cached.at < CACHE_TTL

\* lines 285 and 374: the snapshot of a failed fetch
failure_snapshot(server_id, error) ==
    [ser |-> nser + 1, server_id |-> server_id, online |-> FALSE, error |-> error,
     players |-> "-"]

\* lines 288-317: the snapshot built from a payload that is an object;
\* missing attributes read as None, status other than "online" as offline, no
\* "error" key (name, game_port and server_time are carried along and never
\* read by the cache)
parsed_snapshot(server_id, payload) ==
    [ser |-> nser + 1, server_id |-> server_id, online |-> (payload = "online"),
     error |-> "",
     players |-> IF payload \in {"online", "offline", "partial"} THEN "5/60" ELSE "-"]

\* the call returns `snap` to the caller of fetch_status
Returned(r, snap) ==
    [r EXCEPT !.pc = "done", !.attempt = 0, !.ra = 0, !.payload = "-", !.result = snap]

\* lines 283-287: aiohttp_request raised; the failure snapshot is cached
\* and returned
FetchRaised(c) ==
    LET r == calls[c]
        result == failure_snapshot(r.server_id, "Failed to fetch from BattleMetrics")
    IN  /\ STATUS_CACHE' = [STATUS_CACHE EXCEPT ![r.server_id] = [at |-> now, snap |-> result]]
        /\ nser' = nser + 1
        /\ calls' = [calls EXCEPT ![c] =
               Returned([r EXCEPT !.request = "raised", !.failed = TRUE, !.stored = TRUE],
                        result)]

\* line 288 raises AttributeError on what aiohttp_request returned when that
\* has no .get (None, a list); it leaves get_status_battlemetrics and
\* fetch_status (lines 372-374) returns a snapshot carrying str(e); nothing is
\* cached
ParseRaised(c, returned) ==
    LET r == calls[c]
        result == failure_snapshot(r.server_id,
                      IF returned = "None"
                      THEN "'NoneType' object has no attribute 'get'"
                      ELSE "'list' object has no attribute 'get'")
    IN  /\ nser' = nser + 1
        /\ calls' = [calls EXCEPT ![c] =
               Returned([r EXCEPT !.request = returned, !.failed = TRUE], result)]
        /\ UNCHANGED STATUS_CACHE

\* fetch_status(server_id) -> get_status_battlemetrics lines 277-282: serve
\* the fresh entry, else issue the first GET of aiohttp_request
fetch_status(c, server_id) ==
    LET cached == STATUS_CACHE[server_id]
        r == [NoCall EXCEPT !.server_id = server_id, !.startAt = now, !.seen = cached]
    IN  /\ calls[c].pc \in {"idle", "done", "cancelled"}
        /\ c = "c2" => calls["c1"].pc # "idle"
        /\ nser < MaxSnapshots
        /\ IF cache_fresh(cached, now)
           THEN calls' = [calls EXCEPT ![c] = Returned(r, cached.snap)]
           ELSE calls' = [calls EXCEPT ![c] = [r EXCEPT !.pc = "request", !.fetched = TRUE]]
        /\ UNCHANGED <<now, STATUS_CACHE, nser>>

\* lines 59-63 and 84: what the sleep in progress waits for: the Retry-After
\* value w alone, or base_backoff * 2 ** attempt plus the jitter
delay(r) ==
    IF r.pc = "retry-after-sleep"
    THEN [retry_after |-> TRUE, exponent |-> NoIndex, jitter |-> FALSE]
    ELSE [retry_after |-> FALSE, exponent |-> r.attempt, jitter |-> TRUE]

\* aiohttp_request lines 53-86: the GET of this attempt ended with `resp`
\* (and, below 400, the body `payload`)
aiohttp_request_response(c, resp, payload) ==
    LET r == calls[c] IN
    /\ r.pc = "request"
    /\ IF resp = "ok"
       THEN IF payload = "not-an-object"
            THEN ParseRaised(c, "payload")
            ELSE /\ calls' = [calls EXCEPT ![c] =
                        [r EXCEPT !.pc = "scrape", !.payload = payload,
                                  !.request = "payload",
                                  !.failed = (payload \in {"no-attributes", "partial"})]]
                 /\ UNCHANGED <<STATUS_CACHE, nser>>
       ELSE IF resp = "429-retry-after"
       THEN /\ payload = "online"
            /\ calls' = [calls EXCEPT ![c].pc = "retry-after-sleep", ![c].ra = r.ra + 1]
            /\ UNCHANGED <<STATUS_CACHE, nser>>
       ELSE /\ payload = "online"
            /\ IF r.attempt = retries - 1
               THEN FetchRaised(c)
               ELSE /\ calls' = [calls EXCEPT ![c].pc = "backoff-sleep"]
                    /\ UNCHANGED <<STATUS_CACHE, nser>>
    /\ UNCHANGED now

\* lines 63-64 and 86: the sleep ended and the for loop goes to its next
\* attempt; after the last one the loop is over and aiohttp_request returns
\* None
aiohttp_request_sleep_done(c) ==
    LET r == calls[c] IN
    /\ r.pc \in {"retry-after-sleep", "backoff-sleep"}
    /\ IF r.attempt + 1 < retries
       THEN /\ calls' = [calls EXCEPT ![c].pc = "request", ![c].attempt = r.attempt + 1]
            /\ UNCHANGED <<STATUS_CACHE, nser>>
       ELSE ParseRaised(c, "None")
    /\ UNCHANGED now

\* lines 299-319: the scrape of the in-game time returned (a time, or None on
\* any failure); build the snapshot, cache it at the current time, return it
get_status_battlemetrics_store(c) ==
    LET r == calls[c]
        result == parsed_snapshot(r.server_id, r.payload)
    IN  /\ r.pc = "scrape"
        /\ STATUS_CACHE' = [STATUS_CACHE EXCEPT ![r.server_id] = [at |-> now, snap |-> result]]
        /\ nser' = nser + 1
        /\ calls' = [calls EXCEPT ![c] = Returned([r EXCEPT !.stored = TRUE], result)]
        /\ UNCHANGED now

\* (variant: the handlers are bare `except:` clauses)
except_Exception_bare(e) == TRUE

\* `except Exception` at lines 265, 283, 302 and 372 catches every error but
\* CancelledError, which derives from BaseException
except_Exception(e) == e # "CancelledError"

\* the task awaiting fetch_status is cancelled while its call is in a GET, in
\* a sleep between attempts or in the scrape: CancelledError is raised at
\* that await; aiohttp_request re-raises it (lines 78-80), and each
\* `except Exception` on its way either absorbs it like any error or lets
\* it through to the caller
Cancel(c) ==
    LET r == [calls[c] EXCEPT !.cancelled = calls[c].pc] IN
    /\ r.pc \in {"request", "retry-after-sleep", "backoff-sleep", "scrape"}
    /\ IF except_Exception("CancelledError")
       THEN IF r.pc = "scrape"
            THEN LET result == parsed_snapshot(r.server_id, r.payload) IN
                 /\ STATUS_CACHE' = [STATUS_CACHE EXCEPT ![r.server_id] =
                        [at |-> now, snap |-> result]]
                 /\ calls' = [calls EXCEPT ![c] = Returned([r EXCEPT !.stored = TRUE], result)]
            ELSE LET result == failure_snapshot(r.server_id,
                                   "Failed to fetch from BattleMetrics") IN
                 /\ STATUS_CACHE' = [STATUS_CACHE EXCEPT ![r.server_id] =
                        [at |-> now, snap |-> result]]
                 /\ calls' = [calls EXCEPT ![c] =
                        Returned([r EXCEPT !.request = "raised", !.failed = TRUE,
                                           !.stored = TRUE], result)]
       ELSE /\ calls' = [calls EXCEPT ![c] =
                   [r EXCEPT !.pc = "cancelled", !.attempt = 0, !.ra = 0, !.payload = "-"]]
            /\ UNCHANGED STATUS_CACHE
    /\ nser' = IF except_Exception("CancelledError") THEN nser + 1 ELSE nser
    /\ UNCHANGED now

\* time passes
Tick ==
    /\ now < MaxTicks * TickSeconds
    /\ now' = now + TickSeconds
    /\ UNCHANGED <<STATUS_CACHE, calls, nser>>

\* ---------------------------------------------------------------------
\* Registry
\* ---------------------------------------------------------------------
\* save_servers(data): the document replaces servers.json
save_servers(data) == serversFile' = data

\* (variant: the duplicate check is skipped)
already_listed_never(db, server_id) == FALSE

\* any(s.get("id") == server_id for s in db["servers"])
already_listed(db, server_id) == Contains(db, server_id)

\* db["servers"].append({"id": server_id, ...}) on the db the handler loaded
append_server(db, server_id) == Append(db, server_id)

\* new_servers of remove_server_by_id
new_servers(servers, server_id) == Without(servers, server_id)

\* selected_next of RemoveServerButton.callback; idx is the 1-based position
\* of the removed entry in the list before the removal
selected_next(servers_after, idx) ==
    IF servers_after = <<>> THEN None
    ELSE IF idx = NoIndex THEN servers_after[1]
    ELSE IF idx <= Len(servers_after) THEN servers_after[idx]
    ELSE servers_after[Len(servers_after)]

\* ---------------------------------------------------------------------
\* Session state
\* ---------------------------------------------------------------------
\* (variant: the stored selection is tried before the preferred id)
_resolve_active_server_id_stored_first(servers, preferred_id) ==
    IF servers = <<>> THEN None
    ELSE IF _current_selected_server_id # None
            /\ _current_selected_server_id # <<>>
            /\ Contains(servers, _current_selected_server_id)
         THEN _current_selected_server_id
    ELSE IF preferred_id # None /\ Contains(servers, preferred_id) THEN preferred_id
    ELSE servers[1]

_resolve_active_server_id(servers, preferred_id) ==
    IF servers = <<>> THEN None
    ELSE IF preferred_id # None /\ Contains(servers, preferred_id) THEN preferred_id
    ELSE IF _current_selected_server_id # None
            /\ _current_selected_server_id # <<>>
            /\ Contains(servers, _current_selected_server_id)
         THEN _current_selected_server_id
    ELSE servers[1]

\* _set_selected_server_id: no write when the id is the stored one, else the
\* dict is changed and saved
_set_selected_server_id(server_id) ==
    IF _current_selected_server_id = server_id
    THEN UNCHANGED <<state, stateFile>>
    ELSE /\ state' = [state EXCEPT !.selected_server_id = server_id]
         /\ stateFile' = state'

\* ---------------------------------------------------------------------
\* Persistent store: the files and the steps of a save
\* ---------------------------------------------------------------------
SERVERS_FILE == "servers.json"
STATE_FILE == "status_state.json"

\* (variant: the document is written in place)
tmp_in_place(path) == path

\* lines 101 and 214: tmp = f"{SERVERS_FILE}.tmp", f"{STATE_FILE}.tmp"
tmp(path) == IF path = SERVERS_FILE THEN "servers.json.tmp" ELSE "status_state.json.tmp"

Paths == {SERVERS_FILE, STATE_FILE, "servers.json.tmp", "status_state.json.tmp"}

NoTask == "-"
Crashed == "crashed"

\* what load_servers / load_state return when the file does not exist
\* (lines 94-95 and 204-205)
Default(path) ==
    IF path \in {SERVERS_FILE, "servers.json.tmp"} THEN <<>>
    ELSE [status_message_id |-> NoMessage, selected_server_id |-> None]

\* a file that does not exist
NoFile(path) == [exists |-> FALSE, complete |-> FALSE, doc |-> Default(path)]

\* open(path, "w") created or truncated the file; nothing is written yet
Truncated(path) == [exists |-> TRUE, complete |-> FALSE, doc |-> Default(path)]

\* the file after json.dump and close: the whole document
Written(data) == [exists |-> TRUE, complete |-> TRUE, doc |-> data]

storeVars == <<fs, lock, running>>

\* the store stands still in the other models
StoreInit ==
    /\ fs = [path \in Paths |-> NoFile(path)]
    /\ lock = NoTask
    /\ running = NoTask

\* json.load of the file at path, or the default when it does not exist
load(path) == IF fs[path].exists THEN fs[path].doc ELSE Default(path)

\* the document and the path of the save task record r is in
SavePath(r) == IF r.kind \in {"select", "handle"} THEN STATE_FILE ELSE SERVERS_FILE
SaveData(r) == IF r.kind \in {"select", "handle"} THEN state ELSE r.db

storeFrame == <<serversFile, stateFile, channel, nextMsg, deletes, cycles, lastDone>>

\* the event loop picks a new interaction for the first free task
StoreStart(t) ==
    /\ running = NoTask
    /\ tasks[t].pc = "idle"
    /\ t = "u2" => tasks["u1"].pc # "idle"
    /\ ops < MaxOps
    /\ ops' = ops + 1

\* remove_server_by_id lines 132-142, up to the call of save_servers
StoreRemove(t, server_id) ==
    LET servers == load(SERVERS_FILE)
        new == new_servers(servers, server_id)
        r == [Idle EXCEPT !.kind = "remove", !.server_id = server_id, !.h_before = servers]
    IN  /\ StoreStart(t)
        /\ IF Len(new) = Len(servers)
           THEN /\ tasks' = [tasks EXCEPT ![t] = [r EXCEPT !.pc = "returned", !.outcome = "False"]]
                /\ UNCHANGED running
           ELSE /\ tasks' = [tasks EXCEPT ![t] = [r EXCEPT !.pc = "save_acquire", !.db = new]]
                /\ running' = t
        /\ UNCHANGED <<fs, lock, state, storeFrame, cacheVars>>

\* addserver lines 709-719: load, duplicate check, then the awaited lookup
StoreAdd(t, server_id) ==
    LET db == load(SERVERS_FILE)
        r == [Idle EXCEPT !.kind = "add", !.server_id = server_id, !.h_before = db]
    IN  /\ StoreStart(t)
        /\ IF already_listed(db, server_id)
           THEN tasks' = [tasks EXCEPT ![t] = [r EXCEPT !.pc = "returned", !.outcome = "duplicate"]]
           ELSE tasks' = [tasks EXCEPT ![t] = [r EXCEPT !.pc = "add_name", !.db = db]]
        /\ UNCHANGED <<fs, lock, running, state, storeFrame, cacheVars>>

\* lines 719-725: the lookup returned; append and call save_servers
StoreAddLookupDone(t) ==
    /\ running = NoTask
    /\ tasks[t].pc = "add_name"
    /\ tasks' = [tasks EXCEPT ![t].pc = "save_acquire",
                              ![t].db = append_server(tasks[t].db, tasks[t].server_id)]
    /\ running' = t
    /\ UNCHANGED <<fs, lock, state, ops, storeFrame, cacheVars>>

\* a selection that is changed in memory and never saved
StoreSelect_unsaved(t, server_id) ==
    LET r == [Idle EXCEPT !.kind = "select", !.server_id = server_id] IN
    /\ StoreStart(t)
    /\ state' = [state EXCEPT !.selected_server_id = server_id]
    /\ tasks' = [tasks EXCEPT ![t] = [r EXCEPT !.pc = "returned", !.outcome = "set"]]
    /\ UNCHANGED <<fs, lock, running, storeFrame, cacheVars>>

\* _set_selected_server_id lines 232-241, up to the call of save_state
StoreSelect(t, server_id) ==
    LET r == [Idle EXCEPT !.kind = "select", !.server_id = server_id] IN
    /\ StoreStart(t)
    /\ IF _current_selected_server_id = server_id
       THEN /\ tasks' = [tasks EXCEPT ![t] = [r EXCEPT !.pc = "returned", !.outcome = "same"]]
            /\ UNCHANGED <<state, running>>
       ELSE /\ state' = [state EXCEPT !.selected_server_id = server_id]
            /\ tasks' = [tasks EXCEPT ![t] = [r EXCEPT !.pc = "save_acquire"]]
            /\ running' = t
    /\ UNCHANGED <<fs, lock, storeFrame, cacheVars>>

\* upsert_status_message lines 607-609: channel.send returned the message m;
\* its id is put into state, up to the call of save_state
StoreMessageId(t, m) ==
    LET r == [Idle EXCEPT !.kind = "handle", !.newmsg = m] IN
    /\ StoreStart(t)
    /\ state' = [state EXCEPT !.status_message_id = m]
    /\ tasks' = [tasks EXCEPT ![t] = [r EXCEPT !.pc = "save_acquire"]]
    /\ running' = t
    /\ UNCHANGED <<fs, lock, storeFrame, cacheVars>>

\* (variant: the file is written with awaited I/O)
suspends_in_section(pc) == pc \in {"save_wait", "save_open", "save_dump", "save_replace"}

\* the positions of save_servers / save_state at which the task has given up
\* the event loop: only the wait for a held lock (line 103 / 216); open,
\* json.dump and os.replace are plain calls
suspends(pc) == pc = "save_wait"

\* task t is the one executing, or is picked up again by the idle event loop
Runs(t) == running = t \/ (running = NoTask /\ suspends(tasks[t].pc))

\* where the event loop is after task t moved to position pc
Loop(t, pc) == IF suspends(pc) THEN NoTask ELSE t

\* lines 103 and 216: async with FILE_WRITE_LOCK
SaveAcquire(t) ==
    /\ tasks[t].pc \in {"save_acquire", "save_wait"}
    /\ Runs(t)
    /\ IF lock = NoTask
       THEN /\ lock' = t
            /\ tasks' = [tasks EXCEPT ![t].pc = "save_open"]
            /\ running' = Loop(t, "save_open")
       ELSE /\ tasks[t].pc = "save_acquire"
            /\ tasks' = [tasks EXCEPT ![t].pc = "save_wait"]
            /\ running' = Loop(t, "save_wait")
            /\ UNCHANGED lock
    /\ UNCHANGED <<fs, state, ops, storeFrame, cacheVars>>

\* lines 104 and 217: open(tmp, "w") creates or truncates the file, or raises
SaveOpen(t, ok) ==
    LET path == tmp(SavePath(tasks[t])) IN
    /\ tasks[t].pc = "save_open"
    /\ Runs(t)
    /\ IF ok
       THEN /\ fs' = [fs EXCEPT ![path] = Truncated(path)]
            /\ tasks' = [tasks EXCEPT ![t].pc = "save_dump"]
            /\ running' = Loop(t, "save_dump")
       ELSE /\ tasks' = [tasks EXCEPT ![t].pc = "save_failed"]
            /\ running' = t
            /\ UNCHANGED fs
    /\ UNCHANGED <<lock, state, ops, storeFrame, cacheVars>>

\* lines 105 and 218: json.dump and the close of the with block write the
\* whole document, or raise part way
SaveDump(t, ok) ==
    LET path == tmp(SavePath(tasks[t])) IN
    /\ tasks[t].pc = "save_dump"
    /\ Runs(t)
    /\ IF ok
       THEN /\ fs' = [fs EXCEPT ![path] = Written(SaveData(tasks[t]))]
            /\ tasks' = [tasks EXCEPT ![t].pc = "save_replace"]
            /\ running' = Loop(t, "save_replace")
       ELSE /\ tasks' = [tasks EXCEPT ![t].pc = "save_failed"]
            /\ running' = t
            /\ UNCHANGED fs
    /\ UNCHANGED <<lock, state, ops, storeFrame, cacheVars>>

\* lines 106 and 219: os.replace(tmp, FILE) renames atomically, or raises
SaveReplace(t, ok) ==
    LET path == SavePath(tasks[t]) IN
    /\ tasks[t].pc = "save_replace"
    /\ Runs(t)
    /\ IF ok
       THEN /\ fs' = IF tmp(path) = path THEN fs
                     ELSE [fs EXCEPT ![path] = fs[tmp(path)], ![tmp(path)] = NoFile(tmp(path))]
            /\ tasks' = [tasks EXCEPT ![t].pc = "save_exit"]
       ELSE /\ tasks' = [tasks EXCEPT ![t].pc = "save_failed"]
            /\ UNCHANGED fs
    /\ running' = t
    /\ UNCHANGED <<lock, state, ops, storeFrame, cacheVars>>

\* the async with block is left (normally, or by the error that lines 107-108
\* and 220-221 log), the lock is released, the save returns None and its
\* caller returns: remove_server_by_id True (line 143), the add goes on to
\* report the Target added, _set_selected_server_id returns
SaveExit(t) ==
    /\ tasks[t].pc \in {"save_exit", "save_failed"}
    /\ running = t
    /\ lock' = NoTask
    /\ tasks' = [tasks EXCEPT ![t].pc = "returned",
                              ![t].outcome = IF tasks[t].kind = "remove" THEN "True"
                                             ELSE IF tasks[t].kind = "add" THEN "added"
                                             ELSE "set"]
    /\ running' = NoTask
    /\ UNCHANGED <<fs, state, ops, storeFrame, cacheVars>>

\* the handler is over
Forget(t) ==
    /\ tasks[t].pc = "returned"
    /\ running = NoTask
    /\ tasks' = [tasks EXCEPT ![t] = Idle]
    /\ UNCHANGED <<fs, lock, running, state, ops, storeFrame, cacheVars>>

\* the process is killed, between any two steps
Crash ==
    /\ running # Crashed
    /\ running' = Crashed
    /\ UNCHANGED <<fs, lock, tasks, state, ops, storeFrame, cacheVars>>

\* ---------------------------------------------------------------------
\* upsert_status_message
\* ---------------------------------------------------------------------
InUpsert(r) == r.pc \in {"up_status", "up_edit", "up_send", "up_sent"}

\* servers[:25] of ServerSelect.__init__
MaxOptions == 25

\* build_embed(data) with ServerSelectView(selected_id): the embed shows the
\* status of active_id, the select's options are the registry as it is when the
\* view is built, and nothing is chosen yet
ServerSelectView(active_id) ==
    [shown |-> active_id,
     opts |-> SubSeq(load_servers, 1, IF Len(load_servers) < MaxOptions
                                      THEN Len(load_servers) ELSE MaxOptions),
     values |-> None]

\* the caller's continuation when upsert_status_message returns
Return(r, how) ==
    [r EXCEPT !.pc = IF r.kind = "main" THEN "sleep" ELSE "respond",
              !.msg_id = NoMessage, !.active_id = None, !.view = NoView,
              !.newmsg = NoMessage,
              !.pref = None, !.outcome = how, !.h_state = Idle.h_state]

\* lines 587-596: build the view, store the selection, then await either the
\* fetch/edit of the stored message or the send of a new one
UpsertRender(t, r, msg_id, active_id) ==
    /\ _set_selected_server_id(active_id)
    /\ tasks' = [tasks EXCEPT ![t] =
            [r EXCEPT !.pc = IF msg_id # NoMessage THEN "up_edit" ELSE "up_send",
                      !.msg_id = msg_id, !.active_id = active_id,
                      !.view = ServerSelectView(active_id), !.outcome = "-"]]

\* lines 580-586: read the stored handle, load the registry, resolve the
\* active id and await its status (no await when the registry is empty)
UpsertBegin(t, r, selected_id) ==
    LET msg_id == state.status_message_id
        servers == load_servers
        active_id == _resolve_active_server_id(servers, selected_id)
        entered == IF r.kind = "main" THEN [r EXCEPT !.h_state = state] ELSE r
    IN  /\ lastDone' = IF \A u \in Procs : ~InUpsert(tasks[u]) THEN NoReconcile
                          ELSE lastDone
        /\ IF active_id # None
           THEN /\ tasks' = [tasks EXCEPT ![t] =
                       [entered EXCEPT !.pc = "up_status", !.msg_id = msg_id,
                                       !.active_id = active_id, !.outcome = "-"]]
                /\ UNCHANGED <<state, stateFile>>
           ELSE UpsertRender(t, entered, msg_id, None)

\* fetch_status returned
UpsertStatusDone(t) ==
    /\ tasks[t].pc = "up_status"
    /\ UpsertRender(t, tasks[t], tasks[t].msg_id, tasks[t].active_id)
    /\ UNCHANGED <<serversFile, channel, nextMsg, deletes, ops, cycles, lastDone>>
    /\ UNCHANGED <<cacheVars, storeVars>>

\* lines 596-605: channel.fetch_message and msg.edit, one try block.  The
\* message is edited, or is gone (NotFound: fall through to send), or the
\* platform forbids the call (return)
UpsertEdit(t, forbidden) ==
    LET r == tasks[t] IN
    /\ r.pc = "up_edit"
    /\ IF forbidden
       THEN /\ tasks' = [tasks EXCEPT ![t] = Return(r, "forbidden")]
            /\ lastDone' = [lastDone EXCEPT !.clean = FALSE]
            /\ UNCHANGED channel
       ELSE IF r.msg_id \in DOMAIN channel
       THEN /\ channel' = [channel EXCEPT ![r.msg_id] = r.view]
            /\ tasks' = [tasks EXCEPT ![t] = Return(r, "edited")]
            /\ lastDone' = [lastDone EXCEPT !.active = r.active_id, !.msg = r.msg_id]
       ELSE /\ tasks' = [tasks EXCEPT ![t].pc = "up_send"]
            /\ UNCHANGED <<channel, lastDone>>
    /\ UNCHANGED <<serversFile, stateFile, state, nextMsg, deletes, ops, cycles>>
    /\ UNCHANGED <<cacheVars, storeVars>>

\* line 607: channel.send creates the message on the platform
UpsertSend(t) ==
    LET r == tasks[t] IN
    /\ r.pc = "up_send"
    /\ nextMsg < MaxMsgs
    /\ nextMsg' = nextMsg + 1
    /\ channel' = [i \in DOMAIN channel \cup {nextMsg + 1} |->
            IF i = nextMsg + 1 THEN r.view ELSE channel[i]]
    /\ tasks' = [tasks EXCEPT ![t].pc = "up_sent", ![t].newmsg = nextMsg + 1]
    /\ UNCHANGED <<serversFile, stateFile, state, deletes, ops, cycles, lastDone>>
    /\ UNCHANGED <<cacheVars, storeVars>>

\* a reconcile that returns after the send without storing the handle
UpsertSent_not_stored(t) ==
    LET r == tasks[t] IN
    /\ r.pc = "up_sent"
    /\ tasks' = [tasks EXCEPT ![t] = Return(r, "created")]
    /\ lastDone' = [lastDone EXCEPT !.active = r.active_id, !.msg = r.newmsg]
    /\ UNCHANGED <<serversFile, stateFile, state, channel, nextMsg, deletes, ops, cycles>>
    /\ UNCHANGED <<cacheVars, storeVars>>

\* lines 608-609: the send returned; store and save the new handle
UpsertSent(t) ==
    LET r == tasks[t] IN
    /\ r.pc = "up_sent"
    /\ state' = [state EXCEPT !.status_message_id = r.newmsg]
    /\ stateFile' = state'
    /\ tasks' = [tasks EXCEPT ![t] = Return(r, "created")]
    /\ lastDone' = [lastDone EXCEPT !.active = r.active_id, !.msg = r.newmsg]
    /\ UNCHANGED <<serversFile, channel, nextMsg, deletes, ops, cycles>>
    /\ UNCHANGED <<cacheVars, storeVars>>
\* ---------------------------------------------------------------------
\* on_ready and its poller loop
\* ---------------------------------------------------------------------
\* line 674: the initial reconcile of on_ready
InitialUpsert ==
    /\ tasks["main"].pc = "ready"
    /\ UpsertBegin("main", [tasks["main"] EXCEPT !.kind = "main"], None)
    /\ UNCHANGED <<serversFile, channel, nextMsg, deletes, ops, cycles>>
    /\ UNCHANGED <<cacheVars, storeVars>>

\* lines 679-682: the 60 s sleep ended, reconcile again
PollerWake ==
    /\ tasks["main"].pc = "sleep"
    /\ cycles < MaxCycles
    /\ cycles' = cycles + 1
    /\ UpsertBegin("main", tasks["main"], None)
    /\ UNCHANGED <<serversFile, channel, nextMsg, deletes, ops>>
    /\ UNCHANGED <<cacheVars, storeVars>>

\* a loop body without the try block: the exception ends the task
loop_except_reraise(r) == [Return(r, "raised") EXCEPT !.pc = "stopped"]

\* lines 675-676 and 683-685: an exception of upsert_status_message is caught
\* and logged; on_ready then creates the loop (which starts with its sleep),
\* a cycle of the loop sleeps 60 s in the handler before the next iteration
loop_except(r) ==
    [Return(r, "raised") EXCEPT !.pc = IF cycles = 0 THEN "sleep" ELSE "except_sleep"]

\* lines 598-599 and 607: fetch_message or edit raises an HTTPException that
\* is neither NotFound nor Forbidden, or send raises; fetch_status (lines
\* 369-374) and save_state (lines 220-221) catch their own exceptions
UpsertRaise ==
    LET r == tasks["main"] IN
    /\ r.pc \in {"up_edit", "up_send"}
    /\ tasks' = [tasks EXCEPT !["main"] = loop_except(r)]
    /\ lastDone' = [lastDone EXCEPT !.clean = FALSE]
    /\ UNCHANGED <<serversFile, stateFile, state, channel, nextMsg, deletes, ops, cycles>>
    /\ UNCHANGED <<cacheVars, storeVars>>

\* line 685: the sleep of the handler ended, back to the top of `while True`
loop_except_sleep_done ==
    /\ tasks["main"].pc = "except_sleep"
    /\ tasks' = [tasks EXCEPT !["main"].pc = "sleep"]
    /\ UNCHANGED <<serversFile, stateFile, state, channel, nextMsg, deletes, ops, cycles,
                   lastDone>>
    /\ UNCHANGED <<cacheVars, storeVars>>

\* lines 679-682 with no bound on the number of cycles: the counter stops
\* counting at MaxCycles, the loop does not
loop ==
    /\ tasks["main"].pc = "sleep"
    /\ cycles' = IF cycles < MaxCycles THEN cycles + 1 ELSE cycles
    /\ UpsertBegin("main", tasks["main"], None)
    /\ UNCHANGED <<serversFile, channel, nextMsg, deletes, ops>>
    /\ UNCHANGED <<cacheVars, storeVars>>

\* lines 628-647: SIGINT or SIGTERM closes the client; the event loop winds
\* down and cancels the task, and CancelledError passes `except Exception`
\* (lines 675, 683)
_signal_shutdown ==
    /\ tasks["main"].pc \notin {"ready", "stopped"}
    /\ tasks' = [tasks EXCEPT !["main"] = [Return(@, "shutdown") EXCEPT !.pc = "stopped"]]
    /\ UNCHANGED <<serversFile, stateFile, state, channel, nextMsg, deletes, ops, cycles,
                   lastDone>>
    /\ UNCHANGED <<cacheVars, storeVars>>

\* load_state (lines 203-210): the document of status_state.json
load_state == stateFile

\* the process is killed between any two steps and started again: the files
\* and the channel stay, every task is gone, line 575 loads the state and
\* on_ready runs from its start
Restart ==
    /\ tasks["main"].pc # "ready"
    /\ tasks' = [t \in Procs |-> IF t = "main" THEN [Idle EXCEPT !.pc = "ready"] ELSE Idle]
    /\ state' = load_state
    /\ cycles' = 0
    /\ lastDone' = NoReconcile
    /\ UNCHANGED <<serversFile, stateFile, channel, nextMsg, deletes, ops>>
    /\ UNCHANGED <<cacheVars, storeVars>>

\* ---------------------------------------------------------------------
\* Interaction handlers
\* ---------------------------------------------------------------------
\* a new interaction runs in the first free task (the tasks are interchangeable)
CanStart(t) ==
    /\ tasks[t].pc = "idle"
    /\ ops < MaxOps
    /\ t = "u2" => tasks["u1"].pc # "idle"

\* an interaction answered at once with the message `text`, nothing else done
Reject(text) ==
    /\ text \in {"no-admin", "invalid-link", "duplicate", "not-found", "no-servers"}
    /\ ops' = ops + 1
    /\ UNCHANGED <<serversFile, stateFile, state, channel, nextMsg, deletes, tasks,
                   cycles, lastDone>>

\* addserver lines 694-719 and AddServerModal.on_submit lines 419-434: up to
\* the await of the name lookup
AddBegin(t, url, admin) ==
    LET server_id == extract_bm_id(url)
        db == load_servers
    IN  IF ~admin THEN Reject("no-admin")
        ELSE IF server_id = None THEN Reject("invalid-link")
        ELSE IF already_listed(db, server_id) THEN Reject("duplicate")
        ELSE /\ tasks' = [tasks EXCEPT ![t] =
                    [Idle EXCEPT !.pc = "add_name", !.kind = "add",
                                 !.server_id = server_id, !.db = db]]
             /\ ops' = ops + 1
             /\ UNCHANGED <<serversFile, stateFile, state, channel, nextMsg, deletes,
                            cycles, lastDone>>

addserver(t, url, admin) ==
    /\ CanStart(t)
    /\ AddBegin(t, url, admin)
    /\ UNCHANGED <<cacheVars, storeVars>>

\* the modal is opened with the add button of a live status message
AddServerModal_on_submit(t, m, url, admin) ==
    /\ CanStart(t)
    /\ m \in DOMAIN channel
    /\ AddBegin(t, url, admin)
    /\ UNCHANGED <<cacheVars, storeVars>>

\* lines 719-729 / 434-439: the name lookup returned (with a name or None);
\* append to the db loaded before it, save, then await fetch_channel
AddSave(t) ==
    LET r == tasks[t] IN
    /\ r.pc = "add_name"
    /\ save_servers(append_server(r.db, r.server_id))
    /\ tasks' = [tasks EXCEPT ![t].pc = "fetch_channel", ![t].db = <<>>]
    /\ UNCHANGED <<stateFile, state, channel, nextMsg, deletes, ops, cycles,
                   lastDone>>
    /\ UNCHANGED <<cacheVars, storeVars>>

\* a removal that reports success without comparing the lengths
removed_always(server_id) == TRUE

\* the result of remove_server_by_id: False iff filtering changed no length
removed(server_id) == Len(new_servers(load_servers, server_id)) # Len(load_servers)

\* remove_server_by_id when something was filtered out: save the rest
remove_server_by_id(server_id) == save_servers(new_servers(load_servers, server_id))

\* removeserver lines 808-834: up to the await of fetch_channel
removeserver(t, url, admin) ==
    LET server_id == extract_bm_id(url) IN
    /\ CanStart(t)
    /\ IF ~admin THEN Reject("no-admin")
       ELSE IF server_id = None THEN Reject("invalid-link")
       ELSE IF ~removed(server_id) THEN Reject("not-found")
       ELSE /\ remove_server_by_id(server_id)
            /\ tasks' = [tasks EXCEPT ![t] =
                   [Idle EXCEPT !.pc = "fetch_channel", !.kind = "remove",
                                !.server_id = server_id,
                                !.h_before = load_servers,
                                !.h_active = (_current_selected_server_id = server_id)]]
            /\ ops' = ops + 1
            /\ UNCHANGED <<stateFile, state, channel, nextMsg, deletes, cycles,
                           lastDone>>
    /\ UNCHANGED <<cacheVars, storeVars>>

\* the id a button acts on: the select's chosen value, else the first entry
\* of the registry, else None (lines 468-478 and 541-551)
ButtonServerId(m) ==
    IF channel[m].values # None /\ channel[m].values # NoneOption THEN channel[m].values
    ELSE IF load_servers # <<>> THEN load_servers[1]
    ELSE None

\* RemoveServerButton.callback lines 464-513: up to the await of fetch_channel
RemoveServerButton_callback(t, m, admin) ==
    LET server_id == ButtonServerId(m)
        servers_before == load_servers
        idx == IndexOf(servers_before, server_id)
        servers_after == new_servers(servers_before, server_id)
    IN
    /\ CanStart(t)
    /\ m \in DOMAIN channel
    /\ IF ~admin THEN Reject("no-admin")
       ELSE IF server_id = None THEN Reject("no-servers")
       ELSE IF ~removed(server_id) THEN Reject("not-found")
       ELSE /\ remove_server_by_id(server_id)
            /\ tasks' = [tasks EXCEPT ![t] =
                   [Idle EXCEPT !.pc = "fetch_channel", !.kind = "remove-button",
                                !.server_id = server_id,
                                !.pref = selected_next(servers_after, idx),
                                !.h_before = servers_before,
                                !.h_active = (_current_selected_server_id = server_id)]]
            /\ ops' = ops + 1
            /\ UNCHANGED <<stateFile, state, channel, nextMsg, deletes, cycles,
                           lastDone>>
    /\ UNCHANGED <<cacheVars, storeVars>>

\* fetch_channel returned: the handler enters upsert_status_message
FetchChannelDone(t) ==
    /\ tasks[t].pc = "fetch_channel"
    /\ UpsertBegin(t, tasks[t], tasks[t].pref)
    /\ UNCHANGED <<serversFile, channel, nextMsg, deletes, ops, cycles>>
    /\ UNCHANGED <<cacheVars, storeVars>>

\* the final interaction.response.send_message of an add or a remove
Respond(t) ==
    /\ tasks[t].pc = "respond"
    /\ tasks' = [tasks EXCEPT ![t] = Idle]
    /\ UNCHANGED <<serversFile, stateFile, state, channel, nextMsg, deletes, ops,
                   cycles, lastDone>>
    /\ UNCHANGED <<cacheVars, storeVars>>
\* the values a user can pick in the select menu of message m
Choices(m) ==
    IF channel[m].opts = <<>> THEN {NoneOption}
    ELSE {channel[m].opts[i] : i \in 1..Len(channel[m].opts)}

\* ServerSelect.callback lines 400-406: the choice becomes the select's
\* value; store it as the selection, then await its status
ServerSelect_callback(t, m, v) ==
    /\ CanStart(t)
    /\ m \in DOMAIN channel
    /\ v \in Choices(m)
    /\ channel' = [channel EXCEPT ![m].values = v]
    /\ ops' = ops + 1
    /\ IF v = NoneOption
       THEN UNCHANGED <<state, stateFile, tasks, lastDone>>
       ELSE /\ _set_selected_server_id(v)
            /\ lastDone' = [lastDone EXCEPT !.clean = FALSE]
            /\ tasks' = [tasks EXCEPT ![t] =
                   [Idle EXCEPT !.pc = "select_status", !.kind = "select",
                                !.server_id = v, !.m = m]]
    /\ UNCHANGED <<serversFile, nextMsg, deletes, cycles>>
    /\ UNCHANGED <<cacheVars, storeVars>>

\* lines 406-408 and 564-570: fetch_status returned and the message the
\* control sits on is edited to show that status, with the same view (no
\* effect when the message is gone)
CallbackEdit(t) ==
    LET r == tasks[t] IN
    /\ r.pc \in {"select_status", "refresh_status"}
    /\ channel' = IF r.m \in DOMAIN channel
                  THEN [channel EXCEPT ![r.m].shown = r.server_id]
                  ELSE channel
    /\ tasks' = [tasks EXCEPT ![t] = Idle]
    /\ lastDone' = [lastDone EXCEPT !.clean = FALSE]
    /\ UNCHANGED <<serversFile, stateFile, state, nextMsg, deletes, ops, cycles>>
    /\ UNCHANGED <<cacheVars, storeVars>>

\* RefreshButton.callback lines 541-559: up to the await of the notice
RefreshButton_callback(t, m) ==
    LET server_id == ButtonServerId(m) IN
    /\ CanStart(t)
    /\ m \in DOMAIN channel
    /\ IF server_id = None THEN Reject("no-servers")
       ELSE /\ tasks' = [tasks EXCEPT ![t] =
                   [Idle EXCEPT !.pc = "refresh_notice", !.kind = "refresh",
                                !.server_id = server_id, !.m = m]]
            /\ ops' = ops + 1
            /\ UNCHANGED <<serversFile, stateFile, state, channel, nextMsg, deletes,
                           cycles, lastDone>>
    /\ UNCHANGED <<cacheVars, storeVars>>

\* line 563: the notice was sent; store the selection, then await its status
RefreshSelect(t) ==
    /\ tasks[t].pc = "refresh_notice"
    /\ _set_selected_server_id(tasks[t].server_id)
    /\ lastDone' = [lastDone EXCEPT !.clean = FALSE]
    /\ tasks' = [tasks EXCEPT ![t].pc = "refresh_status"]
    /\ UNCHANGED <<serversFile, channel, nextMsg, deletes, ops, cycles>>
    /\ UNCHANGED <<cacheVars, storeVars>>

\* ---------------------------------------------------------------------
\* The chat platform
\* ---------------------------------------------------------------------
\* a moderator deletes a status message
DeleteMessage(m) ==
    /\ m \in DOMAIN channel
    /\ deletes < MaxDeletes
    /\ deletes' = deletes + 1
    /\ channel' = [i \in DOMAIN channel \ {m} |-> channel[i]]
    /\ UNCHANGED <<serversFile, stateFile, state, nextMsg, tasks, ops, cycles,
                   lastDone>>
    /\ UNCHANGED <<cacheVars, storeVars>>

\* ---------------------------------------------------------------------
\* The reconciliation model
\* ---------------------------------------------------------------------
vars == <<serversFile, stateFile, state, channel, nextMsg, deletes, tasks, ops,
          cycles, lastDone, now, STATUS_CACHE, calls, nser, fs, lock, running>>

\* start-up: the documents found on disk, state = load_state() (line 575),
\* no status message yet, on_ready about to reconcile
Init ==
    /\ serversFile \in InitRegistries
    /\ stateFile \in {[status_message_id |-> NoMessage, selected_server_id |-> s] :
                        s \in {None} \cup {serversFile[i] : i \in 1..Len(serversFile)}}
    /\ state = stateFile
    /\ channel = [i \in {} |-> NoView]
    /\ nextMsg = 0
    /\ deletes = 0
    /\ tasks = [t \in Procs |-> IF t = "main" THEN [Idle EXCEPT !.pc = "ready"] ELSE Idle]
    /\ ops = 0
    /\ cycles = 0
    /\ lastDone = NoReconcile
    /\ CacheInit
    /\ StoreInit

\* the steps of upsert_status_message, for the tasks T
Reconcile(T) ==
    \/ \E t \in T : UpsertStatusDone(t)
    \/ \E t \in T, forbidden \in BOOLEAN : UpsertEdit(t, forbidden)
    \/ \E t \in T : UpsertSend(t)
    \/ \E t \in T : UpsertSent(t)

\* the interaction handlers, run by the tasks T
Interactions(T) ==
    \/ \E t \in T, url \in Urls, admin \in BOOLEAN : addserver(t, url, admin)
    \/ \E t \in T, m \in 1..MaxMsgs, url \in Urls, admin \in BOOLEAN :
          AddServerModal_on_submit(t, m, url, admin)
    \/ \E t \in T : AddSave(t)
    \/ \E t \in T, url \in Urls, admin \in BOOLEAN : removeserver(t, url, admin)
    \/ \E t \in T, m \in 1..MaxMsgs, admin \in BOOLEAN :
          RemoveServerButton_callback(t, m, admin)
    \/ \E t \in T : FetchChannelDone(t)
    \/ \E t \in T : Respond(t)
    \/ \E t \in T, m \in 1..MaxMsgs, v \in Ids \cup {NoneOption} :
          ServerSelect_callback(t, m, v)
    \/ \E t \in T, m \in 1..MaxMsgs : RefreshButton_callback(t, m)
    \/ \E t \in T : RefreshSelect(t)
    \/ \E t \in T : CallbackEdit(t)

\* The whole program from start-up, one interaction at a time: on_ready's
\* reconcile and the poller race with the interaction's handler.
Next ==
    \/ InitialUpsert
    \/ PollerWake
    \/ Reconcile({"main", "u1"})
    \/ Interactions({"u1"})
    \/ \E m \in 1..MaxMsgs : DeleteMessage(m)

Spec == Init /\ [][Next]_vars

\* ---------------------------------------------------------------------
\* The poller
\* ---------------------------------------------------------------------
\* on_ready and its loop alone, running for ever: reconciles that complete,
\* are forbidden or raise, status messages deleted by hand, and the shutdown
\* signal.  A sleep that has started ends (the event loop fires its timers
\* for as long as the process runs); nothing is assumed about the platform.
InitPoller == Init

NextPoller ==
    \/ InitialUpsert
    \/ loop
    \/ Reconcile({"main"})
    \/ UpsertRaise
    \/ loop_except_sleep_done
    \/ \E m \in 1..MaxMsgs : DeleteMessage(m)
    \/ _signal_shutdown

SpecPoller ==
    /\ InitPoller
    /\ [][NextPoller]_vars
    /\ WF_vars(loop)
    /\ WF_vars(loop_except_sleep_done)

\* ---------------------------------------------------------------------
\* Restarts
\* ---------------------------------------------------------------------
\* on_ready and the poller of a process that is killed and started again at
\* any point, with status messages deleted by hand
InitRestart == Init

NextRestart ==
    \/ InitialUpsert
    \/ PollerWake
    \/ Reconcile({"main"})
    \/ \E m \in 1..MaxMsgs : DeleteMessage(m)
    \/ Restart

SpecRestart == InitRestart /\ [][NextRestart]_vars

\* ---------------------------------------------------------------------
\* Links
\* ---------------------------------------------------------------------
\* the characters of a typed link: digits, the two server paths, another
\* character and whitespace
Alphabet == {"1", "2", "P", "Q", "x", Space}

\* every text of at most MaxLen characters
Links == UNION {[1..n -> Alphabet] : n \in 0..MaxLen}

\* An administrator types any link into /addserver and /removeserver; the
\* handlers run to their end, one at a time, while the poller sleeps.
InitExtract == Init

NextExtract ==
    \/ \E url \in Links : addserver("u1", url, TRUE)
    \/ \E url \in Links : removeserver("u1", url, TRUE)
    \/ AddSave("u1")
    \/ FetchChannelDone("u1")
    \/ Reconcile({"u1"})
    \/ Respond("u1")

SpecExtract == InitExtract /\ [][NextExtract]_vars

\* ---------------------------------------------------------------------
\* The slash commands
\* ---------------------------------------------------------------------
\* the add and remove handlers and their continuations, run by the tasks T
Commands(T) ==
    \/ \E t \in T, url \in Urls, admin \in BOOLEAN : addserver(t, url, admin)
    \/ \E t \in T, m \in 1..MaxMsgs, url \in Urls, admin \in BOOLEAN :
          AddServerModal_on_submit(t, m, url, admin)
    \/ \E t \in T : AddSave(t)
    \/ \E t \in T, url \in Urls, admin \in BOOLEAN : removeserver(t, url, admin)
    \/ \E t \in T : FetchChannelDone(t)
    \/ \E t \in T : Respond(t)

\* The program from start-up until the first cycle of the poller, when users
\* only add and remove servers: the commands race with on_ready's reconcile.
InitCommands == Init

NextCommands ==
    \/ InitialUpsert
    \/ Reconcile({"main", "u1"})
    \/ Commands({"u1"})

SpecCommands == InitCommands /\ [][NextCommands]_vars

\* ---------------------------------------------------------------------
\* Overlapping interactions
\* ---------------------------------------------------------------------
\* The program between two poller cycles, after the start-up reconcile has
\* created the status message: two interactions may be in flight at once.
InitUsers ==
    /\ serversFile \in InitRegistries
    /\ \E s \in {None} \cup {serversFile[i] : i \in 1..Len(serversFile)} :
          LET active == IF s # None THEN s
                        ELSE IF serversFile # <<>> THEN serversFile[1] ELSE None
          IN  /\ state = [status_message_id |-> 1, selected_server_id |-> active]
              /\ channel = [i \in {1} |->
                    [shown |-> active, opts |-> serversFile, values |-> None]]
              /\ lastDone = [active |-> active, msg |-> 1, clean |-> TRUE]
    /\ stateFile = state
    /\ nextMsg = 1
    /\ deletes = 0
    /\ tasks = [t \in Procs |-> IF t = "main" THEN [Idle EXCEPT !.pc = "sleep", !.kind = "main"]
                                ELSE Idle]
    /\ ops = 0
    /\ cycles = 0
    /\ CacheInit
    /\ StoreInit

NextUsers ==
    \/ Reconcile(Users)
    \/ Interactions(Users)
    \/ \E m \in 1..MaxMsgs : DeleteMessage(m)

SpecUsers == InitUsers /\ [][NextUsers]_vars
\* ---------------------------------------------------------------------
\* _resolve_active_server_id on every input
\* ---------------------------------------------------------------------
\* every duplicate-free list of at most MaxRegistry of the ids
Registries ==
    {r \in UNION {[1..n -> Ids] : n \in 0..MaxRegistry} : NoDuplicates(r)}

\* a handler about to enter upsert_status_message with any preferred id, on
\* any registry and any stored selection
InitResolve ==
    /\ serversFile \in Registries
    /\ \E s \in Ids \cup {None} :
          state = [status_message_id |-> NoMessage, selected_server_id |-> s]
    /\ stateFile = state
    /\ channel = [i \in {} |-> NoView]
    /\ nextMsg = 0
    /\ deletes = 0
    /\ \E p \in Ids \cup {None} :
          tasks = [t \in Procs |->
                     IF t = "u1"
                     THEN [Idle EXCEPT !.pc = "fetch_channel", !.kind = "remove-button",
                                       !.pref = p]
                     ELSE Idle]
    /\ ops = 0
    /\ cycles = 0
    /\ lastDone = NoReconcile
    /\ CacheInit
    /\ StoreInit

NextResolve == FetchChannelDone("u1")

SpecResolve == InitResolve /\ [][NextResolve]_vars

\* ---------------------------------------------------------------------
\* The store model: mutators and saves step by step, I/O errors, a crash
\* ---------------------------------------------------------------------
InitSave ==
    /\ \E servers \in InitRegistries :
          fs = [path \in Paths |->
                  IF path = SERVERS_FILE THEN Written(servers)
                  ELSE IF path = STATE_FILE THEN Written(Default(STATE_FILE))
                  ELSE NoFile(path)]
    /\ state = load(STATE_FILE)
    /\ lock = NoTask
    /\ running = NoTask
    /\ serversFile = <<>>
    /\ stateFile = state
    /\ channel = [i \in {} |-> NoView]
    /\ nextMsg = 0
    /\ deletes = 0
    /\ tasks = [t \in Procs |-> Idle]
    /\ ops = 0
    /\ cycles = 0
    /\ lastDone = NoReconcile
    /\ CacheInit

NextSave ==
    \/ \E t \in Users, id \in Ids : StoreRemove(t, id)
    \/ \E t \in Users, id \in Ids : StoreAdd(t, id)
    \/ \E t \in Users : StoreAddLookupDone(t)
    \/ \E t \in Users, id \in Ids : StoreSelect(t, id)
    \/ \E t \in Users, m \in 1..MaxMsgs : StoreMessageId(t, m)
    \/ \E t \in Users : SaveAcquire(t)
    \/ \E t \in Users, ok \in BOOLEAN : SaveOpen(t, ok)
    \/ \E t \in Users, ok \in BOOLEAN : SaveDump(t, ok)
    \/ \E t \in Users, ok \in BOOLEAN : SaveReplace(t, ok)
    \/ \E t \in Users : SaveExit(t)
    \/ \E t \in Users : Forget(t)
    \/ Crash

SpecSave == InitSave /\ [][NextSave]_vars

\* The same tasks when every open, json.dump and os.replace succeeds and the
\* process is not killed.
InitSaved == InitSave

NextSaved ==
    \/ \E t \in Users, id \in Ids : StoreRemove(t, id)
    \/ \E t \in Users, id \in Ids : StoreAdd(t, id)
    \/ \E t \in Users : StoreAddLookupDone(t)
    \/ \E t \in Users, id \in Ids \cup {None} : StoreSelect(t, id)
    \/ \E t \in Users, m \in 1..MaxMsgs : StoreMessageId(t, m)
    \/ \E t \in Users : SaveAcquire(t)
    \/ \E t \in Users : SaveOpen(t, TRUE)
    \/ \E t \in Users : SaveDump(t, TRUE)
    \/ \E t \in Users : SaveReplace(t, TRUE)
    \/ \E t \in Users : SaveExit(t)
    \/ \E t \in Users : Forget(t)

SpecSaved == InitSaved /\ [][NextSaved]_vars

\* ---------------------------------------------------------------------
\* The cache model
\* ---------------------------------------------------------------------
\* the rest of the program stands still
InitCache ==
    /\ CacheInit
    /\ StoreInit
    /\ serversFile = <<A, B>>
    /\ state = [status_message_id |-> NoMessage, selected_server_id |-> None]
    /\ stateFile = state
    /\ channel = [i \in {} |-> NoView]
    /\ nextMsg = 0
    /\ deletes = 0
    /\ tasks = [t \in Procs |-> Idle]
    /\ ops = 0
    /\ cycles = 0
    /\ lastDone = NoReconcile

reconcileVars == <<serversFile, stateFile, state, channel, nextMsg, deletes, tasks, ops,
                   cycles, lastDone>>

NextCache ==
    \/ \E c \in Callers, id \in CacheIds : fetch_status(c, id) /\ UNCHANGED <<reconcileVars, storeVars>>
    \/ \E c \in Callers, resp \in Responses, payload \in Payloads :
          aiohttp_request_response(c, resp, payload) /\ UNCHANGED <<reconcileVars, storeVars>>
    \/ \E c \in Callers : aiohttp_request_sleep_done(c) /\ UNCHANGED <<reconcileVars, storeVars>>
    \/ \E c \in Callers : get_status_battlemetrics_store(c) /\ UNCHANGED <<reconcileVars, storeVars>>
    \/ \E c \in Callers : Cancel(c) /\ UNCHANGED <<reconcileVars, storeVars>>
    \/ Tick /\ UNCHANGED <<reconcileVars, storeVars>>

SpecCache == InitCache /\ [][NextCache]_vars

\* ---------------------------------------------------------------------
\* Properties
\* ---------------------------------------------------------------------
InRegistry(id) == Contains(serversFile, id)

\* C1: the persisted registry never holds two Targets with the same id,
\* whatever the interleaving of add and remove operations.
C1_UniqueIds == NoDuplicates(serversFile)

\* two adds of the same id were in flight together and both have saved
C1_Witness ==
    /\ tasks["u1"].kind = "add" /\ tasks["u2"].kind = "add"
    /\ tasks["u1"].server_id = tasks["u2"].server_id
    /\ tasks["u1"].pc \notin {"idle", "add_name"}
    /\ tasks["u2"].pc \notin {"idle", "add_name"}
    /\ InRegistry(tasks["u1"].server_id)

Elems(q) == {q[i] : i \in 1..Len(q)}

\* C2: the write of an add keeps every Target the registry held at that
\* moment (those added earlier by others are still present), brings back none
\* that was removed, and puts the new Target at the end.
C2_AddKeepsOthers ==
    [][\A t \in Users :
          AddSave(t) =>
             /\ Elems(serversFile') = Elems(serversFile) \cup {tasks[t].server_id}
             /\ serversFile'[Len(serversFile')] = tasks[t].server_id
             /\ Without(serversFile', tasks[t].server_id)
                   = Without(serversFile, tasks[t].server_id)]_vars

\* C3: the stored selection is absent or names a Target of the registry.
C3_SelectionInRegistry ==
    state.selected_server_id = None \/ InRegistry(state.selected_server_id)

\* C4: at most one status message is live, and the stored handle names it
\* (except while the reconcile that created it has not yet stored the handle).
C4_SingleArtifact ==
    /\ Cardinality(DOMAIN channel) <= 1
    /\ (DOMAIN channel # {} /\ \A t \in Procs : tasks[t].pc # "up_sent")
          => state.status_message_id \in DOMAIN channel

\* the id the resolution rule of the design names
ResolvedBySpec(servers, stored, preferred) ==
    IF preferred # None /\ Contains(servers, preferred) THEN preferred
    ELSE IF stored # None /\ Contains(servers, stored) THEN stored
    ELSE IF servers # <<>> THEN servers[1]
    ELSE None

\* C5: _resolve_active_server_id returns the preferred id if registered, else
\* the stored id if registered, else the first id, and None exactly when the
\* registry is empty; the result is None or an id of the registry.
C5_Resolve ==
    LET r == tasks["u1"] IN
    r.pc # "fetch_channel" =>
        /\ r.active_id = ResolvedBySpec(serversFile,
                                        IF r.pc = "up_status" THEN state.selected_server_id
                                        ELSE None,
                                        r.pref)
        /\ (r.active_id = None) = (serversFile = <<>>)
        /\ r.active_id = None \/ InRegistry(r.active_id)

\* the preferred id is not registered, the stored one is, and it is not the
\* first entry: the stored id was resolved
C5_Witness ==
    LET r == tasks["u1"] IN
    /\ r.pc = "up_status"
    /\ r.pref # None /\ ~InRegistry(r.pref)
    /\ r.active_id = state.selected_server_id
    /\ r.active_id # serversFile[1]

\* the Target at the same index of the list before the removal, or the last
\* one, or None
SameIndexSuccessor(before, id) ==
    LET after == Without(before, id)
        i == IndexOf(before, id)
    IN  IF after = <<>> THEN None
        ELSE IF i <= Len(after) THEN after[i]
        ELSE after[Len(after)]

\* C6: when the active Target is removed (button or command), the selection
\* after the reconcile that follows is the same-index successor.
C6_RemovalSuccessor ==
    \A t \in Users :
        (/\ tasks[t].pc = "respond"
         /\ tasks[t].kind \in {"remove", "remove-button"}
         /\ tasks[t].h_active)
        => state.selected_server_id = SameIndexSuccessor(tasks[t].h_before, tasks[t].server_id)

\* C7: once no reconcile is running, the stored selection is the id the
\* reconcile that completed last resolved, and the artifact it wrote shows
\* that id (nothing but reconciles having written since they began).
C7_LastReconcileWins ==
    (lastDone.msg # NoMessage /\ lastDone.clean /\ \A t \in Procs : ~InUpsert(tasks[t]))
    => /\ state.selected_server_id = lastDone.active
       /\ lastDone.msg \in DOMAIN channel => channel[lastDone.msg].shown = lastDone.active

Abs(n) == IF n < 0 THEN 0 - n ELSE n

\* C8 as stated: two calls for one id that start within one TTL window
\* return the identical snapshot and trigger at most one fetch between them.
C8_TwoCallsOneFetch ==
    \A a, b \in Callers :
        (/\ a # b
         /\ calls[a].pc = "done" /\ calls[b].pc = "done"
         /\ calls[a].server_id = calls[b].server_id
         /\ Abs(calls[a].startAt - calls[b].startAt) < CACHE_TTL)
        => /\ calls[a].result = calls[b].result
           /\ ~(calls[a].fetched /\ calls[b].fetched)

\* call b started when the cache held the snapshot call a had stored for the
\* same id, less than CACHE_TTL after it was stored
StartedOnEntryOf(b, a) ==
    /\ a # b
    /\ calls[a].pc = "done" /\ calls[b].pc = "done"
    /\ calls[a].server_id = calls[b].server_id
    /\ calls[a].fetched /\ calls[a].stored
    /\ calls[b].seen.snap = calls[a].result
    /\ calls[b].startAt - calls[b].seen.at < CACHE_TTL

\* C8 (amended): a call that starts after another call for the same id has
\* stored its snapshot, less than 10 s after that store and before the entry
\* is overwritten, returns the identical snapshot and fetches nothing.
C8_SecondCallServed ==
    \A a, b \in Callers :
        StartedOnEntryOf(b, a) => calls[b].result = calls[a].result /\ ~calls[b].fetched

C8_Witness == \E a, b \in Callers : StartedOnEntryOf(b, a) /\ calls[b].startAt > calls[a].startAt

\* C9: a call returns the cached snapshot without a fetch exactly when a
\* fresh entry exists at its start; otherwise it fetches and overwrites the
\* entry with the snapshot it returns.
C9_HitIffFresh ==
    \A c \in Callers :
        calls[c].pc = "done" =>
            IF cache_fresh(calls[c].seen, calls[c].startAt)
            THEN calls[c].result = calls[c].seen.snap /\ ~calls[c].fetched
            ELSE calls[c].fetched /\ calls[c].stored /\ calls[c].result # calls[c].seen.snap

\* C10: every call returns a snapshot, and the snapshot of a failed fetch
\* (error raised, no payload, payload of unexpected shape) is offline, carries
\* a non-empty error and no data.
C10_FailureSnapshot ==
    \A c \in Callers :
        calls[c].pc = "done" =>
            /\ calls[c].result # NoSnapshot
            /\ calls[c].failed =>
                  /\ ~calls[c].result.online
                  /\ calls[c].result.error # ""
                  /\ calls[c].result.players = "-"

\* caller c returns from fetch_status in this step
ReturnsNow(c) == calls'[c] # calls[c] /\ calls'[c].pc = "done"

\* caller c issues a provider request for a new call in this step
FetchesNow(c) == calls[c].pc \in {"idle", "done", "cancelled"} /\ calls'[c].pc = "request"

FailureSnapshot(snap) == snap # NoSnapshot /\ ~snap.online /\ snap.error # ""

\* C11: a failure snapshot is in the cache when it is returned, and no call
\* for that id that starts less than 10 s after a call returned a failure
\* snapshot issues a provider request.
C11_FailureCached ==
    [][\A c \in Callers :
          /\ (ReturnsNow(c) /\ FailureSnapshot(calls'[c].result))
                => STATUS_CACHE'[calls'[c].server_id].snap = calls'[c].result
          /\ FetchesNow(c) =>
                ~\E a \in Callers :
                      /\ calls[a].pc = "done"
                      /\ calls[a].server_id = calls'[c].server_id
                      /\ FailureSnapshot(calls[a].result)
                      /\ now - calls[a].startAt < CACHE_TTL]_vars

\* C12: aiohttp_request ends, when not cancelled, by returning the payload of
\* a response below 400 or by raising; it never returns without a payload.
C12_PayloadOrRaise ==
    \A c \in Callers :
        (calls[c].pc = "done" /\ calls[c].fetched) => calls[c].request \in {"payload", "raised"}

\* C13: the sleep after a 429 with Retry-After is that value alone; the
\* backoff after any other failure is base * 2^k plus jitter with k the number
\* of earlier attempts other than Retry-After retries; and the fetcher gives
\* up only when max_attempts attempts other than Retry-After retries failed.
C13_RetryAfterNotCounted ==
    [][\A c \in Callers :
          /\ calls[c].pc = "retry-after-sleep" =>
                delay(calls[c]) = [retry_after |-> TRUE, exponent |-> NoIndex, jitter |-> FALSE]
          /\ calls[c].pc = "backoff-sleep" =>
                delay(calls[c]) = [retry_after |-> FALSE,
                                   exponent |-> calls[c].attempt - calls[c].ra,
                                   jitter |-> TRUE]
          /\ (ReturnsNow(c) /\ calls'[c].request \in {"raised", "None"})
                => calls[c].attempt + 1 - calls[c].ra = retries]_vars

\* C14: a cancellation delivered to a call in a GET, in a sleep between
\* attempts or in the scrape ends the call at once with no snapshot, and the
\* cache is not written for it.
C14_CancellationPropagates ==
    [][\A c \in Callers :
          (calls'[c].cancelled # "-" /\ calls'[c] # calls[c]) =>
              /\ calls'[c].pc = "cancelled"
              /\ calls'[c].result = NoSnapshot
              /\ ~calls'[c].stored
              /\ STATUS_CACHE' = STATUS_CACHE]_vars

C14_Witness ==
    \E c \in Callers :
        /\ calls[c].pc = "cancelled"
        /\ calls[c].cancelled \in {"retry-after-sleep", "backoff-sleep"}

\* C15: the canonical registry file and the canonical session-state file
\* hold a complete document in every state, a crash at any step of a save
\* included; only the .tmp siblings can be partial.
C15_CanonicalComplete ==
    \A path \in {SERVERS_FILE, STATE_FILE} : fs[path].exists => fs[path].complete

C15_Witness ==
    /\ running = Crashed
    /\ \E path \in {SERVERS_FILE, STATE_FILE} :
          fs[tmp(path)].exists /\ ~fs[tmp(path)].complete

\* task t is in the write-temp-then-rename section of a save
InSection(t) == tasks[t].pc \in {"save_open", "save_dump", "save_replace", "save_exit", "save_failed"}

\* C16: at most one task is in the write-temp-then-rename section of a save,
\* it holds the lock, and no other task takes a step until the section is
\* left.
C16_SavesDoNotInterleave ==
    [][\A t \in Users :
          InSection(t) =>
              /\ lock = t
              /\ \A u \in Users \ {t} : ~InSection(u) /\ tasks'[u] = tasks[u]]_vars

C16_Witness ==
    \E t, u \in Users : InSection(t) /\ tasks[t].pc = "save_replace" /\ tasks[u].pc = "add_name"

\* the registry the next load_servers reads after this step
ServersAfter == IF fs'[SERVERS_FILE].exists THEN fs'[SERVERS_FILE].doc ELSE <<>>

\* the mutator of task t returns to its caller in this step
MutatorReturns(t) == tasks[t].pc # "returned" /\ tasks'[t].pc = "returned"

\* C17: when remove_server_by_id returns True, or an add reports the Target
\* added, the registry the next load_servers reads reflects the mutation.
C17_PersistBeforeSuccess ==
    [][\A t \in Users :
          MutatorReturns(t) =>
              /\ tasks'[t].outcome = "True" => ~Contains(ServersAfter, tasks'[t].server_id)
              /\ tasks'[t].outcome = "added" => Contains(ServersAfter, tasks'[t].server_id)]_vars

\* C19: remove_server_by_id returns False and leaves the registry as it was
\* when the id is not in it; otherwise it returns True and the persisted
\* registry is the previous one without that one Target, the others in order.
C19_RemoveById ==
    [][\A t \in Users :
          (MutatorReturns(t) /\ tasks'[t].kind = "remove") =>
              LET before == tasks'[t].h_before
                  id == tasks'[t].server_id
              IN  IF Contains(before, id)
                  THEN /\ tasks'[t].outcome = "True"
                       /\ ServersAfter = Without(before, id)
                       /\ Len(ServersAfter) = Len(before) - 1
                  ELSE /\ tasks'[t].outcome = "False"
                       /\ ServersAfter = before]_vars

\* the id a well-formed link names: digits alone, or the digits after the
\* server path "P"; None for anything else
LinkId(url) ==
    IF IsDigits(url) THEN url
    ELSE IF Len(url) > 1 /\ url[1] = "P" /\ IsDigits(Tail(url)) THEN Tail(url)
    ELSE None

\* an add with these inputs has to be refused
AddRefused(url, admin) ==
    \/ ~admin
    \/ LinkId(url) = None
    \/ Contains(serversFile, LinkId(url))

\* a remove with these inputs has to be refused
RemoveRefused(url, admin) ==
    \/ ~admin
    \/ LinkId(url) = None
    \/ ~Contains(serversFile, LinkId(url))

\* C18: a step that handles a refused add (caller not an administrator, link
\* invalid, id already in the registry) or a refused remove (not an
\* administrator, link invalid, id not in the registry) leaves the registry,
\* the stored and the in-memory state unchanged, starts no reconcile (no task
\* changes) and creates or edits no status message.
C18_RefusedChangesNothing ==
    [][\A t \in Users, url \in Urls, admin \in BOOLEAN :
          (\/ /\ AddRefused(url, admin)
              /\ \/ addserver(t, url, admin)
                 \/ \E m \in 1..MaxMsgs : AddServerModal_on_submit(t, m, url, admin)
           \/ /\ RemoveRefused(url, admin)
              /\ removeserver(t, url, admin))
          => /\ UNCHANGED <<serversFile, stateFile, state, channel, nextMsg, lastDone>>
             /\ tasks' = tasks]_vars

\* one interaction was handled, and nothing was started, written or sent:
\* with no status message in the channel it was an add or remove command,
\* and it was refused
C18_Witness ==
    /\ ops = 1
    /\ tasks = [t \in Procs |-> IF t = "main" THEN [Idle EXCEPT !.pc = "ready"] ELSE Idle]
    /\ nextMsg = 0
    /\ serversFile = <<A, B, C>>
    /\ state = stateFile

\* C20: a failed cycle never halts the poller.  Whenever a reconcile of the
\* main task has raised or was forbidden, the reconcile is invoked again
\* later unless the process is shut down first; and the loop is never stopped
\* by anything but the shutdown.
C20_PollerNeverHalts ==
    /\ (tasks["main"].outcome \in {"raised", "forbidden"})
          ~> (InUpsert(tasks["main"]) \/ tasks["main"].outcome = "shutdown")
    /\ [](tasks["main"].pc = "stopped" => tasks["main"].outcome = "shutdown")

\* a cycle of the loop raised, the handler's sleep is over and the loop is
\* waiting for its next cycle
C20_Witness ==
    /\ cycles >= 1
    /\ tasks["main"].pc = "sleep"
    /\ tasks["main"].outcome = "raised"

C22_ForbiddenAborts ==
    [][(tasks'["main"].outcome = "forbidden" /\ tasks["main"].outcome # "forbidden")
          => /\ UNCHANGED <<channel, nextMsg>>
             /\ state' = tasks["main"].h_state
             /\ stateFile' = tasks["main"].h_state]_vars

\* C23: the SessionState survives a restart at any point.  The state loaded
\* by the new process is the state the killed process held; and the first
\* reconcile of a process (the one of on_ready, before any cycle of the
\* poller) sends a status message only if no status message exists, so a
\* message created before the restart is edited and never doubled.
C23_RestartSurvival ==
    [][LET r == tasks["main"]
           q == tasks'["main"]
       IN
       /\ (r.pc # "ready" /\ q.pc = "ready") => state' = state
       /\ (cycles = 0 /\ r.pc = "up_send" /\ q.pc = "up_sent")
             => DOMAIN channel = {}]_vars

\* the id a link names: a bare digit string is the id; a text that holds a
\* server path of any game and nothing but digits after it names those
\* digits; every other text names nothing
NamedId(url) ==
    LET u == Strip(url)
        paths == {i \in 1..Len(u) : u[i] \in {"P", "Q"} /\ IsDigits(SubSeq(u, i + 1, Len(u)))}
    IN  IF IsDigits(u) THEN u
        ELSE IF paths # {} THEN SubSeq(u, (CHOOSE i \in paths : TRUE) + 1, Len(u))
        ELSE None

\* C24: extract_bm_id returns the numeric id of every valid link (a URL with
\* /servers/<game>/<digits> for any game, or a bare digit string) and None
\* for every other text: /addserver of an administrator goes on with exactly
\* the id the link names, and answers at once when the link names no id.
C24_ExtractId ==
    [][\A url \in Links :
          addserver("u1", url, TRUE)
          => IF NamedId(url) = None \/ Contains(serversFile, NamedId(url))
             THEN tasks' = tasks
             ELSE /\ tasks'["u1"].pc = "add_name"
                  /\ tasks'["u1"].server_id = NamedId(url)]_vars

\* C25: when no save fails, the document of status_state.json equals the
\* in-memory state whenever no task is executing (every task is at an await
\* or over); and a task that is asked to select the id already stored
\* returns without writing anything.
C25_DiskEqualsMemory ==
    /\ [](running = NoTask => load(STATE_FILE) = state)
    /\ [][\A t \in Users :
            (tasks[t].pc = "idle" /\ tasks'[t].kind = "select"
                /\ tasks'[t].server_id = state.selected_server_id)
            => /\ tasks'[t].pc = "returned"
               /\ UNCHANGED <<fs, state, lock>>]_vars

\* both code paths have run: a selection and a message id were put into the
\* state and saved, and the tasks are at rest
C25_Witness ==
    /\ running = NoTask
    /\ state.selected_server_id # None
    /\ state.status_message_id # NoMessage
    /\ fs[STATE_FILE].doc = state
    /\ \E t \in Users : tasks[t].pc = "returned" /\ tasks[t].outcome = "set"

\* C26: removing a Target that is not the active selection leaves the
\* selection alone.  After /removeserver or the remove button has removed an
\* id other than the stored selection, no step of that handler (its
\* follow-up reconcile included) changes the stored selection as long as the
\* selected id is in the registry.
C26_NonActiveRemovalKeepsSelection ==
    [][\A t \in Users :
          (/\ tasks[t].kind \in {"remove", "remove-button"}
           /\ ~tasks[t].h_active
           /\ tasks'[t] # tasks[t]
           /\ state.selected_server_id # None
           /\ state.selected_server_id # tasks[t].server_id
           /\ Contains(serversFile, state.selected_server_id))
          => state'.selected_server_id = state.selected_server_id]_vars
====
